---------------------------- MODULE Spec2Model ----------------------------
(***************************************************************************)
(* PlantPal: the local plant record store (src/utils/storage.ts) over the  *)
(* single AsyncStorage slot '@plantpal_saved_plants', and the screens that *)
(* call it; and the analyze endpoint (POST) that turns the AI provider's   *)
(* text into the analysis the results screen saves; the statistics the     *)
(* store computes of its collection (getPlantStats); and the results       *)
(* screen's two save buttons.                                              *)
(*                                                                         *)
(* JavaScript values are tagged tuples, so that any two of them can be     *)
(* compared: <<"string", s>>, <<"number", n>>, <<"NaN">>, <<"null">>,      *)
(* <<"undefined">>.  A JavaScript object is a function from its own keys   *)
(* to values; a key that is absent is not in the DOMAIN.                   *)
(***************************************************************************)
EXTENDS Integers, Sequences, FiniteSets, TLC

VARIABLES
    blob,    \* what the medium holds under PLANTS_STORAGE_KEY
    now,     \* Date.now(), in milliseconds
    saves,   \* number of savePlant calls made so far
    calls,   \* number of savePlant, updatePlant and deletePlant calls made so far
    faults,  \* number of times the medium has failed so far
    last,    \* the store call that completed last: arguments, faults, outcome
    tasks,   \* store calls in flight, when calls overlap
    writes,  \* number of setItem calls the medium has completed for them
    aiResponse,  \* the text the AI provider answered the analyze request with
    response,    \* what the analyze endpoint answered: status and JSON body
    params,      \* the route parameters the results screen was opened with
    request,     \* the analyze request and what the AI provider does with it
    fetches,     \* number of times the endpoint has called the AI provider
    resultsScreen  \* the results screen: its React state and what it has rendered

vars == <<blob, now, saves, calls, faults, last, tasks, writes,
          aiResponse, response, params, request, fetches, resultsScreen>>

--------------------------------------------------------------------------
(* Bounds *)

MaxNow == 1
MaxSaves == 2
MaxCalls == 3
MaxFaults == 1

--------------------------------------------------------------------------
(* JavaScript values *)

Str(s) == <<"string", s>>
Num(n) == <<"number", n>>
NaN == <<"NaN">>
Null == <<"null">>
Undefined == <<"undefined">>

EmptyObject == [k \in {} |-> Undefined]

\* o.k : property access, undefined when the key is absent
Get(o, k) == IF k \in DOMAIN o THEN o[k] ELSE Undefined

\* { ...a, ...b }
Spread(a, b) ==
    [k \in (DOMAIN a) \cup (DOMAIN b) |-> IF k \in DOMAIN b THEN b[k] ELSE a[k]]

\* a number in at least w digits
Pad(n, w) ==
    IF w = 3 /\ n < 10 THEN "00" \o ToString(n)
    ELSE IF n < 10 \/ (w = 3 /\ n < 100) THEN "0" \o ToString(n)
    ELSE ToString(n)

\* new Date(t).toISOString(), for an instant t of January 1970 in milliseconds
toISOString(t) ==
    Str("1970-01-" \o Pad(t \div 86400000 + 1, 2)
        \o "T" \o Pad((t \div 3600000) % 24, 2)
        \o ":" \o Pad((t \div 60000) % 60, 2)
        \o ":" \o Pad((t \div 1000) % 60, 2)
        \o "." \o Pad(t % 1000, 3) \o "Z")

\* Math.random().toString(36).substr(2, 9)
Suffixes == {"k3x9q", "p0d7m"}

--------------------------------------------------------------------------
(* JSON *)

\* JSON.stringify of one object: a key whose value is undefined is left out,
\* NaN is written as null
stringifyObject(o) ==
    [k \in {j \in DOMAIN o : o[j] # Undefined} |-> IF o[k] = NaN THEN Null ELSE o[k]]

\* JSON.stringify(plants): the text of a JSON array
JSONstringify(plants) ==
    [kind |-> "json", value |-> [i \in 1..Len(plants) |-> stringifyObject(plants[i])]]

\* JSON.parse(text) of a text that parses
JSONparse(text) == text.value

\* AsyncStorage.getItem resolves to null: nothing stored under the key
Absent == [kind |-> "absent", value |-> <<>>]
\* the stored text is not JSON
Corrupt == [kind |-> "corrupt", value |-> <<>>]

--------------------------------------------------------------------------
(* PlantStorage, the code between the awaits *)

\* getAllPlants: getItemRejects is the medium's read failing
getAllPlants(medium, getItemRejects) ==
    IF getItemRejects THEN <<>>
    ELSE IF medium.kind = "absent" THEN <<>>
    ELSE IF medium.kind = "corrupt" THEN <<>>
    ELSE JSONparse(medium)

\* id: `plant_${Date.now()}_${Math.random().toString(36).substr(2, 9)}`
plantId(t, suffix) == Str("plant_" \o ToString(t) \o "_" \o suffix)

\* newPlant = { ...plantData, id, dateAdded }
newPlant(plantData, t, suffix) ==
    Spread(plantData, [id |-> plantId(t, suffix), dateAdded |-> toISOString(t)])

\* [...plants, newPlant]: the new record last
updatedPlantsAppended(plant, plants) == plants \o <<plant>>

\* updatedPlants = [newPlant, ...plants]
updatedPlants(plant, plants) == <<plant>> \o plants

\* a findIndex that answers the first index when no record has the id
findIndexOrFirst(plants, id) ==
    IF \E i \in 1..Len(plants) : Get(plants[i], "id") = id
    THEN CHOOSE i \in 1..Len(plants) :
            /\ Get(plants[i], "id") = id
            /\ \A j \in 1..(i - 1) : Get(plants[j], "id") # id
    ELSE IF plants = <<>> THEN 0 ELSE 1

\* plants.findIndex(plant => plant.id === id), 0 for -1
findIndex(plants, id) ==
    IF \E i \in 1..Len(plants) : Get(plants[i], "id") = id
    THEN CHOOSE i \in 1..Len(plants) :
            /\ Get(plants[i], "id") = id
            /\ \A j \in 1..(i - 1) : Get(plants[j], "id") # id
    ELSE 0

\* plants.find(plant => plant.id === id) || null, as a list of 0 or 1 records
find(plants, id) ==
    IF findIndex(plants, id) = 0 THEN <<>> ELSE <<plants[findIndex(plants, id)]>>

\* { ...updates, ...plants[plantIndex] }: the stored fields win
updatedPlantStoredWins(plant, patch) == Spread(patch, plant)

\* updatedPlant = { ...plants[plantIndex], ...updates }
updatedPlant(plant, patch) == Spread(plant, patch)

\* plants.splice(plantIndex, 1); plants.unshift(updatedPlant)
assignAtFront(plants, plantIndex, plant) ==
    <<plant>> \o SubSeq(plants, 1, plantIndex - 1)
              \o SubSeq(plants, plantIndex + 1, Len(plants))

\* plants[plantIndex] = updatedPlant
assignAt(plants, plantIndex, plant) ==
    [i \in 1..Len(plants) |-> IF i = plantIndex THEN plant ELSE plants[i]]

\* plants.filter(plant => plant.id === id): the test inverted
filteredPlantsKept(plants, id) ==
    SelectSeq(plants, LAMBDA plant : Get(plant, "id") = id)

\* plants.filter(plant => plant.id !== id)
RECURSIVE filteredPlants(_, _)
filteredPlants(plants, id) ==
    IF plants = <<>> THEN <<>>
    ELSE IF Get(Head(plants), "id") # id
         THEN <<Head(plants)>> \o filteredPlants(Tail(plants), id)
         ELSE filteredPlants(Tail(plants), id)

--------------------------------------------------------------------------
(* Callers *)

\* handleSavePlant builds plantData from the route parameters; confidence is
\* parseInt of the parameter without its '%', which is NaN for "null%".
\* Only the fields the store's callers read back are kept.
Drafts ==
    { [name |-> Str("Monstera deliciosa"), confidence |-> Num(87),
       healthStatus |-> Str("healthy"), healthScore |-> Num(90)],
      [name |-> Undefined, confidence |-> NaN,
       healthStatus |-> Str("poor"), healthScore |-> Num(50)] }

\* handleSavePlant's plantData, when the analysis parameters are well formed
WellFormedDrafts ==
    { [name |-> Str("Monstera deliciosa"), confidence |-> Num(87),
       healthStatus |-> Str("healthy"), healthScore |-> Num(90)] }

\* the keys of SavedPlant that the model carries; "born" is a ghost key that
\* numbers the records in the order savePlant created them
SavedPlantKeys ==
    {"id", "dateAdded", "name", "confidence", "healthStatus", "healthScore",
     "customName", "notes", "lastWatered", "lastFertilized", "born"}

\* the updates the screens pass, and updates that set id or dateAdded
\* (Partial<SavedPlant> allows both)
UpdateInputs(plants) ==
       {[lastWatered |-> toISOString(now)]}
  \cup {[customName |-> Undefined, notes |-> n] : n \in {Undefined, Str("A")}}
  \cup {[id |-> Get(plants[i], "id"), dateAdded |-> toISOString(now)] :
            i \in 1..Len(plants)}

\* ids a caller may hold: those of stored records, one that was never stored
\* and the one it has just deleted
IdInputs(plants) ==
         {Get(plants[i], "id") : i \in 1..Len(plants)}
    \cup {Str("plant_0_stale")}
    \cup (IF last.op = "deletePlant" THEN {last.id} ELSE {})

--------------------------------------------------------------------------
(* State *)

\* two handlers can be in flight at once
Tasks == {1, 2}

Idle ==
    [pc |-> "idle", op |-> "none", id |-> Undefined, arg |-> EmptyObject,
     plants |-> <<>>, pending |-> Absent, ret |-> <<>>, ok |-> FALSE,
     readAt |-> 0, wroteAt |-> 0]

NoCall ==
    [op |-> "none", id |-> Undefined, arg |-> EmptyObject,
     readFault |-> FALSE, writeFault |-> FALSE, setItems |-> 0,
     out |-> "return", err |-> "", ret |-> <<>>, ok |-> FALSE,
     after |-> "none"]

Clean(call) == ~call.readFault /\ ~call.writeFault

\* the record of a completed call, with what it follows
Call(op, id, arg, rf, wf, n, out, err, ret, ok) ==
    [op |-> op, id |-> id, arg |-> arg,
     readFault |-> rf, writeFault |-> wf, setItems |-> n,
     out |-> out, err |-> err, ret |-> ret, ok |-> ok,
     after |-> IF last.id = id /\ last.out = "return" /\ Clean(last)
               THEN last.op ELSE "none"]

\* an analyze request that the endpoint passes on to the AI provider, which
\* answers it with a text: the key is configured, the body is JSON and has
\* the image
ServedRequest == [apiKey |-> TRUE, body |-> "image", provider |-> "text"]

\* the results screen when it opens: useState(false) twice, rendered, and no
\* savePlant call made
FreshScreen ==
    [isSaving |-> FALSE, isSaved |-> FALSE,
     shown |-> [isSaving |-> FALSE, isSaved |-> FALSE],
     started |-> 0, succeeded |-> 0, failed |-> 0]

Init ==
    /\ blob = Absent
    /\ now = 0
    /\ saves = 0
    /\ calls = 0
    /\ faults = 0
    /\ last = NoCall
    /\ tasks = [t \in Tasks |-> Idle]
    /\ writes = 0
    /\ aiResponse = <<>>
    /\ response = <<>>
    /\ params = <<>>
    /\ request = ServedRequest
    /\ fetches = 0
    /\ resultsScreen = FreshScreen

--------------------------------------------------------------------------
(* PlantStorage calls, each completing before the next begins *)

\* the medium fails a call's read (rf) or write (wf)
Fails(rf, wf) ==
    LET n == (IF rf THEN 1 ELSE 0) + (IF wf THEN 1 ELSE 0)
    IN /\ faults + n <= MaxFaults
       /\ faults' = faults + n

\* the error AsyncStorage.setItem rejects with
SetItemError == "setItem rejected"

\* catch (error) { console.error(...); return null; }: the error is swallowed
savePlantCatchSwallowed(error) == [out |-> "return", err |-> "", ok |-> FALSE]

\* savePlant: catch (error) { console.error(...); throw error; }
savePlantCatch(error) == [out |-> "throw", err |-> error, ok |-> FALSE]

\* updatePlant: catch (error) { console.error(...); throw error; }
updatePlantCatch(error) == [out |-> "throw", err |-> error, ok |-> FALSE]

\* deletePlant: catch (error) { console.error(...); return false; }
deletePlantCatch(error) == [out |-> "return", err |-> "", ok |-> FALSE]

\* savePlant(plantData)
SavePlant(draft, suffix, rf, wf) ==
    /\ Fails(rf, wf)
    /\ saves < MaxSaves
    /\ calls < MaxCalls
    /\ saves' = saves + 1
    /\ calls' = calls + 1
    /\ UNCHANGED <<now, tasks, writes,
                 aiResponse, response, params, request, fetches, resultsScreen>>
    /\ LET plantData == Spread(draft, [born |-> Num(saves + 1)])
           plants == getAllPlants(blob, rf)
           plant == newPlant(plantData, now, suffix)
       IN IF wf
          THEN /\ blob' = blob
               /\ LET c == savePlantCatch(SetItemError)
                  IN last' = Call("savePlant", Undefined, plantData, rf, TRUE, 1,
                                  c.out, c.err, <<>>, c.ok)
          ELSE /\ blob' = JSONstringify(updatedPlants(plant, plants))
               /\ last' = Call("savePlant", Get(plant, "id"), plantData, rf, FALSE, 1,
                               "return", "", <<plant>>, TRUE)

\* a getAllPlants that stores an empty array when it finds the key absent
GetAllPlantsInitialising(rf) ==
    /\ Fails(rf, FALSE)
    /\ last' = Call("getAllPlants", Undefined, EmptyObject, rf, FALSE,
                    IF blob.kind = "absent" THEN 1 ELSE 0,
                    "return", "", getAllPlants(blob, rf), TRUE)
    /\ blob' = IF blob.kind = "absent" THEN JSONstringify(<<>>) ELSE blob
    /\ UNCHANGED <<now, saves, calls, tasks, writes,
                 aiResponse, response, params, request, fetches, resultsScreen>>

\* getAllPlants()
GetAllPlants(rf) ==
    /\ Fails(rf, FALSE)
    /\ last' = Call("getAllPlants", Undefined, EmptyObject, rf, FALSE, 0,
                    "return", "", getAllPlants(blob, rf), TRUE)
    /\ UNCHANGED <<blob, now, saves, calls, tasks, writes,
                 aiResponse, response, params, request, fetches, resultsScreen>>

\* getPlantById(id)
GetPlantById(id, rf) ==
    /\ Fails(rf, FALSE)
    /\ last' = Call("getPlantById", id, EmptyObject, rf, FALSE, 0,
                    "return", "", find(getAllPlants(blob, rf), id), TRUE)
    /\ UNCHANGED <<blob, now, saves, calls, tasks, writes,
                 aiResponse, response, params, request, fetches, resultsScreen>>

\* updatePlant(id, updates)
UpdatePlant(id, patch, rf, wf) ==
    /\ Fails(rf, wf)
    /\ calls < MaxCalls
    /\ calls' = calls + 1
    /\ UNCHANGED <<now, saves, tasks, writes,
                 aiResponse, response, params, request, fetches, resultsScreen>>
    /\ LET plants == getAllPlants(blob, rf)
           plantIndex == findIndex(plants, id)
       IN IF plantIndex = 0
          THEN /\ ~wf
               /\ blob' = blob
               /\ last' = Call("updatePlant", id, patch, rf, FALSE, 0,
                               "return", "", <<>>, FALSE)
          ELSE LET plant == updatedPlant(plants[plantIndex], patch)
               IN IF wf
                  THEN /\ blob' = blob
                       /\ LET c == updatePlantCatch(SetItemError)
                          IN last' = Call("updatePlant", id, patch, rf, TRUE, 1,
                                          c.out, c.err, <<>>, c.ok)
                  ELSE /\ blob' = JSONstringify(assignAt(plants, plantIndex, plant))
                       /\ last' = Call("updatePlant", id, patch, rf, FALSE, 1,
                                       "return", "", <<plant>>, TRUE)

\* deletePlant(id)
DeletePlant(id, rf, wf) ==
    /\ Fails(rf, wf)
    /\ calls < MaxCalls
    /\ calls' = calls + 1
    /\ UNCHANGED <<now, saves, tasks, writes,
                 aiResponse, response, params, request, fetches, resultsScreen>>
    /\ LET plants == getAllPlants(blob, rf)
       IN IF wf
          THEN /\ blob' = blob
               /\ LET c == deletePlantCatch(SetItemError)
                  IN last' = Call("deletePlant", id, EmptyObject, rf, TRUE, 1,
                                  c.out, c.err, <<>>, c.ok)
          ELSE /\ blob' = JSONstringify(filteredPlants(plants, id))
               /\ last' = Call("deletePlant", id, EmptyObject, rf, FALSE, 1,
                               "return", "", <<>>, TRUE)

\* a millisecond passes
Tick ==
    /\ now < MaxNow
    /\ now' = now + 1
    /\ UNCHANGED <<blob, saves, calls, faults, last, tasks, writes,
                 aiResponse, response, params, request, fetches, resultsScreen>>

\* the stored text is damaged outside the program
Damage ==
    /\ blob.kind = "json"
    /\ faults < MaxFaults
    /\ faults' = faults + 1
    /\ blob' = Corrupt
    /\ last' = NoCall
    /\ UNCHANGED <<now, saves, calls, tasks, writes,
                 aiResponse, response, params, request, fetches, resultsScreen>>

\* what getAllPlants returns when the medium reads
Collection == getAllPlants(blob, FALSE)

\* the medium works: calls made one after the other, with every input
Next ==
    \/ \E draft \in Drafts, suffix \in Suffixes :
          SavePlant(draft, suffix, FALSE, FALSE)
    \/ GetAllPlants(FALSE)
    \/ \E id \in IdInputs(Collection) : GetPlantById(id, FALSE)
    \/ \E id \in IdInputs(Collection), patch \in UpdateInputs(Collection) :
          UpdatePlant(id, patch, FALSE, FALSE)
    \/ \E id \in IdInputs(Collection) : DeletePlant(id, FALSE, FALSE)
    \/ Tick

Spec == Init /\ [][Next]_vars

\* the medium may fail: calls made one after the other by the journal and
\* results screens, each of whose reads and writes may be rejected
NextFaults ==
    \/ \E draft \in WellFormedDrafts, suffix \in Suffixes, rf, wf \in BOOLEAN :
          SavePlant(draft, suffix, rf, wf)
    \/ \E rf \in BOOLEAN : GetAllPlants(rf)
    \/ \E id \in IdInputs(Collection), rf \in BOOLEAN : GetPlantById(id, rf)
    \/ \E id \in IdInputs(Collection), rf, wf \in BOOLEAN :
          UpdatePlant(id, [lastWatered |-> toISOString(now)], rf, wf)
    \/ \E id \in IdInputs(Collection), rf, wf \in BOOLEAN : DeletePlant(id, rf, wf)
    \/ Tick
    \/ Damage

SpecFaults == Init /\ [][NextFaults]_vars

--------------------------------------------------------------------------
(* PlantStorage calls that overlap: a call runs up to its await of         *)
(* AsyncStorage.getItem, resumes when the medium has read, runs up to its  *)
(* await of AsyncStorage.setItem and returns when the medium has written.  *)
(* The medium does not fail here.                                          *)

\* handleWaterPlant's and handleFertilizePlant's updates
RaceUpdateInputs ==
    {[lastWatered |-> toISOString(now)], [lastFertilized |-> toISOString(now)]}

\* the ids of the records the journal screen shows
RaceIdInputs == {Get(Collection[i], "id") : i \in 1..Len(Collection)}

Begin(t, op, id, arg) ==
    /\ tasks[t].pc = "idle"
    /\ calls < MaxCalls
    /\ calls' = calls + 1
    /\ tasks' = [tasks EXCEPT ![t] = [Idle EXCEPT !.pc = "getItem", !.op = op,
                                                  !.id = id, !.arg = arg]]
    /\ UNCHANGED <<blob, now, faults, last, writes,
                 aiResponse, response, params, request, fetches, resultsScreen>>

\* savePlant(plantData) is called and awaits getAllPlants()
BeginSave(t, draft) ==
    /\ saves < MaxSaves
    /\ saves' = saves + 1
    /\ Begin(t, "savePlant", Undefined, Spread(draft, [born |-> Num(saves + 1)]))

\* updatePlant(id, updates) is called and awaits getAllPlants()
BeginUpdate(t, id, patch) ==
    /\ Begin(t, "updatePlant", id, patch)
    /\ UNCHANGED saves

\* deletePlant(id) is called and awaits getAllPlants()
BeginDelete(t, id) ==
    /\ Begin(t, "deletePlant", id, EmptyObject)
    /\ UNCHANGED saves

\* the call of task t resumes with the plants read, and either returns or
\* awaits setItem with the text it has computed
Resume(t, plants, pc, pending, ret) ==
    /\ tasks' = [tasks EXCEPT ![t] = [@ EXCEPT !.pc = pc, !.plants = plants,
                                               !.pending = pending, !.ret = ret,
                                               !.readAt = writes]]
    /\ UNCHANGED <<blob, now, saves, calls, faults, last, writes,
                 aiResponse, response, params, request, fetches, resultsScreen>>

\* savePlant after its read
SaveResumes(t, suffix) ==
    /\ tasks[t].pc = "getItem" /\ tasks[t].op = "savePlant"
    /\ LET plants == getAllPlants(blob, FALSE)
           plant == newPlant(tasks[t].arg, now, suffix)
       IN Resume(t, plants, "setItem", JSONstringify(updatedPlants(plant, plants)),
                 <<plant>>)

\* updatePlant after its read
UpdateResumes(t) ==
    /\ tasks[t].pc = "getItem" /\ tasks[t].op = "updatePlant"
    /\ LET plants == getAllPlants(blob, FALSE)
           plantIndex == findIndex(plants, tasks[t].id)
       IN IF plantIndex = 0
          THEN Resume(t, plants, "done", Absent, <<>>)
          ELSE LET plant == updatedPlant(plants[plantIndex], tasks[t].arg)
               IN Resume(t, plants, "setItem",
                         JSONstringify(assignAt(plants, plantIndex, plant)), <<plant>>)

\* deletePlant after its read
DeleteResumes(t) ==
    /\ tasks[t].pc = "getItem" /\ tasks[t].op = "deletePlant"
    /\ LET plants == getAllPlants(blob, FALSE)
       IN Resume(t, plants, "setItem",
                 JSONstringify(filteredPlants(plants, tasks[t].id)), <<>>)

\* the medium writes the text of task t, and the call returns successfully
SetItemResolves(t) ==
    /\ tasks[t].pc = "setItem"
    /\ blob' = tasks[t].pending
    /\ writes' = writes + 1
    /\ tasks' = [tasks EXCEPT ![t] = [@ EXCEPT !.pc = "done", !.ok = TRUE,
                                               !.wroteAt = writes + 1]]
    /\ UNCHANGED <<now, saves, calls, faults, last,
                 aiResponse, response, params, request, fetches, resultsScreen>>

\* the handler of task t has finished; the task can take another call
Finish(t) ==
    /\ tasks[t].pc = "done"
    /\ tasks' = [tasks EXCEPT ![t] = Idle]
    /\ UNCHANGED <<blob, now, saves, calls, faults, last, writes,
                 aiResponse, response, params, request, fetches, resultsScreen>>

NextRace ==
    \/ \E t \in Tasks, draft \in WellFormedDrafts : BeginSave(t, draft)
    \/ \E t \in Tasks, id \in RaceIdInputs, patch \in RaceUpdateInputs :
          BeginUpdate(t, id, patch)
    \/ \E t \in Tasks, id \in RaceIdInputs : BeginDelete(t, id)
    \/ \E t \in Tasks, suffix \in Suffixes : SaveResumes(t, suffix)
    \/ \E t \in Tasks : UpdateResumes(t)
    \/ \E t \in Tasks : DeleteResumes(t)
    \/ \E t \in Tasks : SetItemResolves(t)
    \/ \E t \in Tasks : Finish(t)
    \/ Tick

SpecRace == Init /\ [][NextRace]_vars

--------------------------------------------------------------------------
(* Properties of the store, calls made one after the other *)

\* a step that is a store call named op (Tick leaves last alone, Damage
\* sets it to NoCall)
Called(op) == now' = now /\ last'.op = op

\* the first position of Collection that holds a record with this id, or 0
Position(id) ==
    IF \E i \in 1..Len(Collection) : Get(Collection[i], "id") = id
    THEN CHOOSE i \in 1..Len(Collection) :
            /\ Get(Collection[i], "id") = id
            /\ \A j \in 1..Len(Collection) : Get(Collection[j], "id") = id => i <= j
    ELSE 0

\* C1: no two records of the persisted collection have the same id, in
\* every state that savePlant, updatePlant and deletePlant calls reach
UniqueIds ==
    \A i, j \in 1..Len(Collection) :
        i # j => Get(Collection[i], "id") # Get(Collection[j], "id")

\* C2: an updatePlant call, whatever its updates, leaves the id and the
\* dateAdded of every record as they were before the call
IdAndDateAddedFixed ==
    [][ Called("updatePlant") =>
          /\ Len(Collection') = Len(Collection)
          /\ \A i \in 1..Len(Collection) :
                /\ Get(Collection'[i], "id") = Get(Collection[i], "id")
                /\ Get(Collection'[i], "dateAdded") = Get(Collection[i], "dateAdded")
      ]_vars

\* C4: round trip: when savePlant(x) returned r and the next call is
\* getPlantById(r.id), read without a medium fault, it returns a record
\* whose every field is the field of x, plus r's id and dateAdded
RoundTrip ==
    [][ ( /\ Called("getPlantById")
          /\ ~last'.readFault
          /\ last.op = "savePlant" /\ last.out = "return"
          /\ last'.id = last.id )
        => /\ last'.ret # <<>>
           /\ \A k \in SavedPlantKeys :
                 Get(last'.ret[1], k) =
                    Get(Spread(last.arg,
                               [id |-> last.id,
                                dateAdded |-> Get(last.ret[1], "dateAdded")]), k)
      ]_vars

\* C5: partial update: after updatePlant(i, updates) returned a record, each
\* field of record i that updates does not provide has its previous value,
\* each provided field has the value from updates, every other record is
\* unchanged and so is the order of the collection
PartialUpdate ==
    [][ (Called("updatePlant") /\ last'.out = "return" /\ last'.ret # <<>>)
        => LET i == Position(last'.id)
           IN /\ i > 0
              /\ Len(Collection') = Len(Collection)
              /\ \A j \in 1..Len(Collection) : j # i => Collection'[j] = Collection[j]
              /\ \A k \in SavedPlantKeys :
                    Get(Collection'[i], k) =
                       IF k \in DOMAIN last'.arg THEN last'.arg[k]
                       ELSE Get(Collection[i], k)
      ]_vars

\* notes = "A" has survived updatePlant(i, {lastWatered: T})
PartialUpdateWitness ==
    /\ last.op = "updatePlant" /\ last.ret # <<>>
    /\ "lastWatered" \in DOMAIN last.arg
    /\ \E i \in 1..Len(Collection) :
          /\ Get(Collection[i], "id") = last.id
          /\ Get(Collection[i], "notes") = Str("A")
          /\ Get(Collection[i], "lastWatered") = last.arg.lastWatered

\* C6: deletePlant is idempotent: a deletePlant(id) during which the medium
\* does not fail returns true; when it repeats the call before it, the
\* collection stays as that call left it; and deleting an id that is not in
\* the store leaves the collection unchanged
DeleteIdempotent ==
    [][ (Called("deletePlant") /\ Clean(last'))
        => /\ last'.out = "return" /\ last'.ok
           /\ last'.after = "deletePlant" => Collection' = Collection
           /\ Position(last'.id) = 0 => Collection' = Collection
      ]_vars

\* deletePlant(id) has been called twice in succession for the id of a
\* record that savePlant had stored
DeleteIdempotentWitness ==
    /\ last.op = "deletePlant" /\ last.after = "deletePlant" /\ last.ok
    /\ Clean(last)
    /\ last.id # Str("plant_0_stale")
    /\ saves > 0

\* the number savePlant gave the record when it created it
Born(plant) == plant["born"][2]

\* C7: the collection is most-recent-first: whatever getAllPlants returns
\* lists the surviving records in reverse order of their creation
MostRecentFirst ==
    \A rf \in BOOLEAN :
        LET plants == getAllPlants(blob, rf)
        IN \A i, j \in 1..Len(plants) : i < j => Born(plants[i]) > Born(plants[j])

\* the record saved second is first in the collection, ahead of the record
\* saved first, after an updatePlant of the older record
MostRecentFirstWitness ==
    /\ last.op = "updatePlant" /\ last.ret # <<>>
    /\ Len(Collection) = 2
    /\ Born(last.ret[1]) = 1
    /\ Born(Collection[1]) = 2 /\ Born(Collection[2]) = 1

\* C8: when the medium's read fails or the stored text does not parse,
\* getAllPlants fails with an error that reaches the caller, and it returns
\* the empty collection only when no record is persisted
ReadFaultSurfaces ==
    [][ Called("getAllPlants")
        => /\ (last'.readFault \/ blob.kind = "corrupt") => last'.out = "throw"
           /\ (last'.out = "return" /\ last'.ret = <<>>)
                 => (blob.kind = "absent" \/ (blob.kind = "json" /\ blob.value = <<>>))
      ]_vars

\* C9: while nothing is persisted under the key, getAllPlants returns the
\* empty collection, getPlantById returns null for every id, neither of them
\* fails and neither writes to the medium
FirstUse ==
    [][ ( /\ blob.kind = "absent"
          /\ (Called("getAllPlants") \/ Called("getPlantById")) )
        => /\ last'.out = "return"
           /\ last'.ret = <<>>
           /\ last'.setItems = 0
           /\ blob' = blob
      ]_vars

\* getPlantById has answered on a store that was never written
FirstUseWitness ==
    /\ blob.kind = "absent"
    /\ last.op = "getPlantById" /\ last.out = "return" /\ last.ret = <<>>

\* C10: when the medium's write fails during savePlant or updatePlant, the
\* call throws the medium's error, returns no record, has called setItem
\* once, and the persisted blob is what it was before the call
WriteFaultPropagates ==
    [][ ( /\ (Called("savePlant") \/ Called("updatePlant"))
          /\ last'.writeFault )
        => /\ last'.out = "throw"
           /\ last'.err = SetItemError
           /\ last'.ret = <<>>
           /\ last'.setItems = 1
           /\ blob' = blob
      ]_vars

\* a savePlant has failed on its write over a store that holds a record
WriteFaultPropagatesWitness ==
    /\ last.op = "savePlant" /\ last.writeFault /\ last.out = "throw"
    /\ Collection # <<>>

\* the journal's handleDeletePlant and the details screen's handleDelete:
\* try { await deletePlant(id); Alert 'Removed' } catch { Alert 'Error' };
\* the boolean deletePlant returns is not looked at
handleDeletePlant(call) == IF call.out = "throw" THEN "Error" ELSE "Removed"

\* C11: a deletePlant whose write does not fail returns true; one whose write
\* fails throws to its caller, so that the delete handlers never report
\* 'Removed' while a record with the id is still persisted
DeleteFailureSurfaces ==
    [][ Called("deletePlant")
        => /\ ~last'.writeFault => (last'.out = "return" /\ last'.ok)
           /\ last'.writeFault
                 => /\ last'.out = "throw"
                    /\ handleDeletePlant(last') = "Removed"
                          => \A i \in 1..Len(Collection') :
                                Get(Collection'[i], "id") # last'.id
      ]_vars

\* C12: for an id that no stored record has, getPlantById and updatePlant
\* return null without throwing, call setItem not once and leave the
\* persisted blob as it was
AbsenceIsNormal ==
    [][ ( /\ (Called("getPlantById") \/ Called("updatePlant"))
          /\ Position(last'.id) = 0 )
        => /\ last'.out = "return"
           /\ last'.ret = <<>>
           /\ last'.setItems = 0
           /\ blob' = blob
      ]_vars

\* updatePlant has answered null for an id that is not in a store that
\* holds a record
AbsenceIsNormalWitness ==
    /\ last.op = "updatePlant" /\ last.out = "return" /\ last.ret = <<>>
    /\ last.setItems = 0
    /\ Collection # <<>>
    /\ Position(last.id) = 0


--------------------------------------------------------------------------
(* Overlapping calls *)

\* what one call does to a collection when nothing runs beside it: savePlant
\* puts its record first, updatePlant merges its updates into the first
\* record with the id, deletePlant removes every record with the id
Effect(task, collection) ==
    IF task.op = "savePlant" THEN <<task.ret[1]>> \o collection
    ELSE IF task.op = "updatePlant"
    THEN [i \in 1..Len(collection) |->
            IF /\ Get(collection[i], "id") = task.id
               /\ \A j \in 1..(i - 1) : Get(collection[j], "id") # task.id
            THEN [k \in (DOMAIN collection[i]) \cup (DOMAIN task.arg) |->
                    IF k \in DOMAIN task.arg THEN task.arg[k] ELSE collection[i][k]]
            ELSE collection[i]]
    ELSE SelectSeq(collection, LAMBDA plant : Get(plant, "id") # task.id)

\* tasks t and u have both read the collection before either wrote it, t
\* wrote first, u wrote last, and both have returned
BothReadThenWrote(t, u) ==
    /\ t # u
    /\ tasks[t].pc = "done" /\ tasks[u].pc = "done"
    /\ tasks[t].wroteAt > 0
    /\ tasks[t].readAt = tasks[t].wroteAt - 1
    /\ tasks[u].readAt = tasks[t].readAt
    /\ tasks[u].wroteAt = tasks[t].wroteAt + 1

\* C3: when two mutating calls both read the collection before either writes
\* it back, both report success, and the persisted collection is the effect
\* of the call that wrote last on the collection both read: the change of the
\* call that wrote first is lost
LostUpdate ==
    \A t, u \in Tasks :
        BothReadThenWrote(t, u)
        => /\ tasks[t].ok /\ tasks[u].ok
           /\ Collection = Effect(tasks[u], tasks[t].plants)

\* updatePlant(a, {lastWatered}) returned a watered record, an updatePlant
\* with {lastFertilized} wrote last, and record a is persisted without
\* lastWatered
LostUpdateWitness ==
    \E t, u \in Tasks :
        /\ BothReadThenWrote(t, u)
        /\ tasks[t].op = "updatePlant" /\ "lastWatered" \in DOMAIN tasks[t].arg
        /\ tasks[u].op = "updatePlant" /\ "lastFertilized" \in DOMAIN tasks[u].arg
        /\ Get(tasks[t].ret[1], "lastWatered") = tasks[t].arg.lastWatered
        /\ \E i \in 1..Len(Collection) :
              /\ Get(Collection[i], "id") = tasks[t].id
              /\ Get(Collection[i], "lastWatered") = Undefined

--------------------------------------------------------------------------
(* The analyze endpoint (POST): JavaScript values and coercions            *)
(*                                                                         *)
(* Besides the values above: <<"boolean", b>>, <<"half", n>> for the       *)
(* number n + 0.5 (n >= 0), <<"array", s>> and <<"object", o>>.            *)

\* the largest number whose decimal text String-to-Number and parseInt read
MaxNumber == 150

Bool(b) == <<"boolean", b>>
Half(n) == <<"half", n>>
Arr(s) == <<"array", s>>
Obj(o) == <<"object", o>>

\* ToBoolean(v): what `v || d` and `!v` test
Truthy(v) ==
    CASE v[1] = "undefined" -> FALSE
      [] v[1] = "null" -> FALSE
      [] v[1] = "NaN" -> FALSE
      [] v[1] = "boolean" -> v[2]
      [] v[1] = "number" -> v[2] # 0
      [] v[1] = "string" -> v[2] # ""
      [] OTHER -> TRUE

\* v || d
OrElse(v, d) == IF Truthy(v) THEN v ELSE d

\* v?.k : undefined for null and undefined, and for values with no such key
OptGet(v, k) == IF v[1] = "object" THEN Get(v[2], k) ELSE Undefined

\* Number(s) of a string: "" is 0, a decimal text is its value, any other
\* text is NaN
StringToNumber(s) ==
    IF s = "" THEN Num(0)
    ELSE IF \E n \in (0 - MaxNumber)..MaxNumber : ToString(n) = s
    THEN Num(CHOOSE n \in (0 - MaxNumber)..MaxNumber : ToString(n) = s)
    ELSE IF \E n \in 0..MaxNumber : ToString(n) \o ".5" = s
    THEN Half(CHOOSE n \in 0..MaxNumber : ToString(n) \o ".5" = s)
    ELSE NaN

\* what a conversion throws when it cannot make a primitive of an object
TypeError == <<"TypeError">>

\* ToPrimitive(v) throws: v is an object whose own toString is not a function
\* (no JSON value is one); the valueOf it inherits answers the object itself
ToPrimitiveThrows(v) == v[1] = "object" /\ "toString" \in DOMAIN v[2]

\* ToNumber(v), the coercion Math.min and Math.max apply to their arguments
ToNumber(v) ==
    CASE v[1] = "number" -> v
      [] v[1] = "half" -> v
      [] v[1] = "null" -> Num(0)
      [] v[1] = "boolean" -> IF v[2] THEN Num(1) ELSE Num(0)
      [] v[1] = "string" -> StringToNumber(v[2])
      [] v[1] = "array" -> IF v[2] = <<>> THEN Num(0) ELSE NaN
      [] v[1] = "object" -> IF ToPrimitiveThrows(v) THEN TypeError ELSE NaN
      [] OTHER -> NaN

\* twice a number, to order whole numbers and halves
Twice(x) == IF x[1] = "half" THEN 2 * x[2] + 1 ELSE 2 * x[2]

\* Math.min(a, b): NaN when either argument is not a number
MathMin(a, b) ==
    LET x == ToNumber(a)
        y == ToNumber(b)
    IN IF x = TypeError \/ y = TypeError THEN TypeError
       ELSE IF x = NaN \/ y = NaN THEN NaN
       ELSE IF Twice(x) <= Twice(y) THEN x ELSE y

\* Math.max(a, b)
MathMax(a, b) ==
    LET x == ToNumber(a)
        y == ToNumber(b)
    IN IF x = TypeError \/ y = TypeError THEN TypeError
       ELSE IF x = NaN \/ y = NaN THEN NaN
       ELSE IF Twice(x) >= Twice(y) THEN x ELSE y

\* Array.isArray(v)
IsArray(v) == v[1] = "array"

\* Response.json(o) and JSON.stringify(o) of one object, read back by
\* response.json(): a key whose value is undefined is left out, NaN is null
ResponseJson(o) ==
    [k \in {j \in DOMAIN o : o[j] # Undefined} |-> IF o[k] = NaN THEN Null ELSE o[k]]

--------------------------------------------------------------------------
(* The analyze endpoint (POST): extraction and normalisation               *)

\* the AI text is a sequence of pieces: an opening brace, a closing brace,
\* prose without braces, or the member list of a JSON object (any braces in
\* it are balanced and belong to its values)
LBrace == <<"{">>
RBrace == <<"}">>
Prose == <<"prose">>
Members(o) == <<"members", o>>

\* the index of the first piece of text that is an opening brace, or 0
RECURSIVE indexOfLBrace(_, _)
indexOfLBrace(text, i) ==
    IF i > Len(text) THEN 0
    ELSE IF text[i] = LBrace THEN i
    ELSE indexOfLBrace(text, i + 1)

\* the index of the last piece of text that is a closing brace, or 0
RECURSIVE lastIndexOfRBrace(_, _)
lastIndexOfRBrace(text, i) ==
    IF i < 1 THEN 0
    ELSE IF text[i] = RBrace THEN i
    ELSE lastIndexOfRBrace(text, i - 1)

\* the index of the first closing brace after position i, or 0
RECURSIVE indexOfRBrace(_, _)
indexOfRBrace(text, i) ==
    IF i > Len(text) THEN 0
    ELSE IF text[i] = RBrace THEN i
    ELSE indexOfRBrace(text, i + 1)

\* aiResponse.match(/\{[\s\S]*?\}/): lazy, up to the first closing brace
jsonMatchLazy(text) ==
    LET a == indexOfLBrace(text, 1)
        b == IF a = 0 THEN 0 ELSE indexOfRBrace(text, a + 1)
    IN IF a # 0 /\ b # 0 THEN <<SubSeq(text, a, b)>> ELSE <<>>

\* jsonMatch = aiResponse.match(/\{[\s\S]*\}/): null, or the text from the
\* first opening brace that a closing brace follows to the last closing brace
jsonMatch(text) ==
    LET a == indexOfLBrace(text, 1)
        b == lastIndexOfRBrace(text, Len(text))
    IN IF a # 0 /\ a < b THEN <<SubSeq(text, a, b)>> ELSE <<>>

\* JSON.parse(jsonMatch[0]): the object, or nothing when it throws
JSONparseObject(span) ==
    IF Len(span) = 2 /\ span[1] = LBrace /\ span[2] = RBrace
    THEN <<EmptyObject>>
    ELSE IF /\ Len(span) = 3 /\ span[1] = LBrace /\ span[3] = RBrace
            /\ span[2][1] = "members"
    THEN <<span[2][2]>>
    ELSE <<>>

\* the fallback of careAdvice
CareAdviceFallback ==
    Arr(<< Str("Provide appropriate lighting for the species"),
           Str("Water when the top inch of soil feels dry"),
           Str("Ensure good drainage to prevent root rot"),
           Str("Monitor for pests and diseases regularly") >>)

\* careAdvice: Array.isArray(plantData.careAdvice) ? ... : fallback
careAdviceAnyArray(plantData) ==
    IF IsArray(Get(plantData, "careAdvice"))
    THEN Get(plantData, "careAdvice")
    ELSE CareAdviceFallback

\* careAdvice: Array.isArray(plantData.careAdvice) &&
\*             plantData.careAdvice.length > 0 ? plantData.careAdvice : fallback
careAdvice(plantData) ==
    IF IsArray(Get(plantData, "careAdvice")) /\ Len(Get(plantData, "careAdvice")[2]) > 0
    THEN Get(plantData, "careAdvice")
    ELSE CareAdviceFallback

\* Math.max(1, Math.min(100, v || 50))
clamp(v) == MathMax(Num(1), MathMin(Num(100), OrElse(v, Num(50))))

\* the fallbacks of the string fields of results
StringFallback ==
    [plantName |-> Str("Unknown Plant"),
     commonName |-> Str("Unidentified Species"),
     diagnosis |-> Str("Health status could not be determined from this image"),
     healthStatus |-> Str("unknown")]

\* the fallbacks of the fields of results.quickFacts (the degree sign of the
\* temperature is left out)
QuickFactsFallback ==
    [origin |-> Str("Unknown"), difficulty |-> Str("Unknown"),
     growthRate |-> Str("Unknown"),
     toxicity |-> Str("Unknown - keep away from pets"),
     lightRequirement |-> Str("Bright, indirect light"),
     waterFrequency |-> Str("When soil is dry"),
     humidity |-> Str("40-60%"), temperature |-> Str("65-75F")]

\* the fallback of results.healthInsights.overallCondition
OverallConditionFallback == Str("Unable to assess condition from this image")

\* the fallbacks of the lists of results.healthInsights
InsightsFallback ==
    [strengths |-> Arr(<<Str("Plant appears to be surviving")>>),
     concerns |-> Arr(<<Str("Monitor for any changes")>>),
     recommendations |-> Arr(<<Str("Continue regular care routine")>>)]

\* Array.isArray(plantData.healthInsights?.k)
\*    ? plantData.healthInsights.k : fallback
insightsList(plantData, k) ==
    IF IsArray(OptGet(Get(plantData, "healthInsights"), k))
    THEN OptGet(Get(plantData, "healthInsights"), k)
    ELSE InsightsFallback[k]

\* const results = { ... }, without identificationId and timestamp
results(plantData) ==
    [plantName |-> OrElse(Get(plantData, "plantName"), StringFallback.plantName),
     commonName |-> OrElse(Get(plantData, "commonName"), StringFallback.commonName),
     confidence |-> clamp(Get(plantData, "confidence")),
     diagnosis |-> OrElse(Get(plantData, "diagnosis"), StringFallback.diagnosis),
     healthStatus |-> OrElse(Get(plantData, "healthStatus"), StringFallback.healthStatus),
     healthScore |-> clamp(Get(plantData, "healthScore")),
     careAdvice |-> careAdvice(plantData),
     quickFacts |->
        Obj([k \in DOMAIN QuickFactsFallback |->
                OrElse(OptGet(Get(plantData, "quickFacts"), k), QuickFactsFallback[k])]),
     healthInsights |->
        Obj([k \in {"overallCondition"} \cup DOMAIN InsightsFallback |->
                IF k = "overallCondition"
                THEN OrElse(OptGet(Get(plantData, "healthInsights"), k),
                            OverallConditionFallback)
                ELSE insightsList(plantData, k)])]

\* the fallbacks of the fields of objectInfo
ObjectInfoFallback ==
    [objectType |-> Str("unknown object"),
     objectName |-> Str("unidentified object"),
     explanation |-> Str("This object cannot be identified."),
     whyNotPlant |->
        Str("PlantPal is designed to help you care for plants, flowers, and "
            \o "trees. Please take a photo of a botanical specimen instead.")]

\* objectInfo: { objectType: plantData.objectType || 'unknown object', ... }
objectInfo(plantData) ==
    [k \in DOMAIN ObjectInfoFallback |-> OrElse(Get(plantData, k), ObjectInfoFallback[k])]

\* `${v}` and v.toString() of a value that came through JSON; an array joins
\* its elements with commas, null and undefined elements as empty text
RECURSIVE toText(_)
toText(v) ==
    CASE v[1] = "number" -> ToString(v[2])
      [] v[1] = "half" -> ToString(v[2]) \o ".5"
      [] v[1] = "string" -> v[2]
      [] v[1] = "boolean" -> IF v[2] THEN "true" ELSE "false"
      [] v[1] = "null" -> "null"
      [] v[1] = "undefined" -> "undefined"
      [] v[1] = "array" ->
           IF v[2] = <<>> THEN ""
           ELSE LET head == IF Head(v[2]) \in {Null, Undefined} THEN ""
                            ELSE toText(Head(v[2]))
                IN IF Len(v[2]) = 1 THEN head
                   ELSE head \o "," \o toText(Arr(Tail(v[2])))
      [] OTHER -> "[object Object]"

\* the answers that report a failure: status, error code and message
failure(status, error, message) ==
    [status |-> status, success |-> FALSE, error |-> error, message |-> message,
     data |-> EmptyObject, objectInfo |-> EmptyObject]

\* if (!aiResponse) return ...
NoAiResponse == failure(500, "NO_AI_RESPONSE", "No response from AI service")

\* the inner catch (parseError): no JSON found, or JSON.parse threw
ParseFailed ==
    failure(500, "ANALYSIS_FAILED",
            "Unable to analyze this image. Please try again with a clearer photo.")

\* the outer catch (error): anything else that threw
AnalysisFailed ==
    failure(500, "ANALYSIS_FAILED",
            "Failed to analyze the image. Please try again with a clearer "
            \o "photo of a plant.")

\* what POST answers to the text the AI provider gave; a TypeError thrown
\* while the message or the results are built is caught by the outer catch
postResponse(text) ==
    IF text = <<>>
    THEN NoAiResponse
    ELSE LET match == jsonMatch(text)
             parsed == IF match = <<>> THEN <<>> ELSE JSONparseObject(match[1])
         IN IF parsed = <<>>
            THEN ParseFailed
            ELSE IF Get(parsed[1], "isPlant") = Bool(FALSE)
            THEN IF ToPrimitiveThrows(OrElse(Get(parsed[1], "objectName"),
                                             Str("not a plant")))
                 THEN AnalysisFailed
                 ELSE [status |-> 200, success |-> FALSE, error |-> "NOT_A_PLANT",
                       message |->
                           "This appears to be "
                           \o toText(OrElse(Get(parsed[1], "objectName"),
                                            Str("not a plant")))
                           \o ". PlantPal is designed for plant care.",
                       data |-> EmptyObject,
                       objectInfo |-> ResponseJson(objectInfo(parsed[1]))]
            ELSE IF \E k \in {"confidence", "healthScore"} :
                       results(parsed[1])[k] = TypeError
                 THEN AnalysisFailed
                 ELSE [status |-> 200, success |-> TRUE, error |-> "",
                       message |-> "",
                       data |-> ResponseJson(results(parsed[1])),
                       objectInfo |-> EmptyObject]

--------------------------------------------------------------------------
(* The analyze endpoint: the AI texts it is given *)

\* the longest AI text, in pieces
MaxLen == 4

\* o with key k set to v, or without key k when v is undefined
With(o, k, v) ==
    IF v = Undefined
    THEN [j \in (DOMAIN o) \ {k} |-> o[j]]
    ELSE [j \in (DOMAIN o) \cup {k} |-> IF j = k THEN v ELSE o[j]]

\* the quickFacts and healthInsights the prompt asks for
BaseQuickFacts ==
    [origin |-> Str("Central America"), difficulty |-> Str("Beginner"),
     growthRate |-> Str("Fast"), toxicity |-> Str("Toxic to pets"),
     lightRequirement |-> Str("Bright shade"), waterFrequency |-> Str("Weekly"),
     humidity |-> Str("60-80%"), temperature |-> Str("65-85F")]

BaseInsights ==
    [overallCondition |-> Str("Thriving"),
     strengths |-> Arr(<<Str("New growth"), Str("Glossy leaves")>>),
     concerns |-> Arr(<<Str("Slight yellowing")>>),
     recommendations |-> Arr(<<Str("Rotate weekly")>>)]

\* a payload in the format the prompt asks for
BasePlant ==
    [isPlant |-> Bool(TRUE),
     plantName |-> Str("Monstera deliciosa"), commonName |-> Str("Swiss cheese plant"),
     confidence |-> Num(87), healthStatus |-> Str("healthy"), healthScore |-> Num(90),
     diagnosis |-> Str("Glossy leaves, no visible pests"),
     careAdvice |-> Arr(<<Str("Water weekly"), Str("Wipe the leaves")>>),
     quickFacts |-> Obj(BaseQuickFacts),
     healthInsights |-> Obj(BaseInsights)]

\* the payload the prompt asks for when the image shows no plant
BaseNonPlant ==
    [isPlant |-> Bool(FALSE), objectType |-> Str("furniture"),
     objectName |-> Str("a wooden chair"),
     explanation |-> Str("A chair with four legs"),
     whyNotPlant |-> Str("Furniture is not a living organism")]

\* what the AI may give for a field: absent (undefined), null, and values of
\* every JSON type
NumberInputs ==
    { Undefined, Null, Num(0), Num(0 - 5), Num(1), Num(85), Num(100), Num(150),
      Half(0), Half(87), Str(""), Str("85"), Str("high"),
      Bool(TRUE), Bool(FALSE), Obj(EmptyObject), Obj([toString |-> Num(0)]) }

StringInputs ==
    { Undefined, Null, Str(""), Str("Ficus lyrata"), Num(0), Num(42), Bool(TRUE),
      Arr(<<>>), Obj(EmptyObject), Obj([toString |-> Num(0)]) }

ListInputs ==
    { Undefined, Null, Str("Water weekly"), Num(3), Obj(EmptyObject),
      Arr(<<>>), Arr(<<Str("Mist daily")>>),
      Arr(<<Str("Mist daily"), Str("Repot in spring")>>), Arr(<<Num(1)>>) }

IsPlantInputs ==
    { Undefined, Null, Bool(TRUE), Bool(FALSE), Str("false"), Str(""), Num(0) }

\* the fields of a payload, by the kind of value results expects
NumberFields == {"confidence", "healthScore"}
StringFields == {"plantName", "commonName", "diagnosis", "healthStatus"}
InsightsLists == {"strengths", "concerns", "recommendations"}
ObjectInfoFields == {"objectType", "objectName", "explanation", "whyNotPlant"}

\* payloads with isPlant true or absent: one field of a full or of an empty
\* payload varied at a time, and confidence and healthScore varied together
PlantPayloads ==
    LET bases == {BasePlant, EmptyObject}
    IN      {With(b, k, v) : b \in bases, k \in NumberFields, v \in NumberInputs}
       \cup {With(With(BasePlant, "confidence", v), "healthScore", w) :
                v \in NumberInputs, w \in NumberInputs}
       \cup {With(b, k, v) : b \in bases, k \in StringFields, v \in StringInputs}
       \cup {With(b, "careAdvice", v) : b \in bases, v \in ListInputs}
       \cup {With(b, k, v) : b \in bases, k \in {"quickFacts", "healthInsights"},
                             v \in {Undefined, Null, Str("none"), Obj(EmptyObject)}}
       \cup {With(b, "quickFacts", Obj(With(q, k, v))) :
                b \in bases, q \in {BaseQuickFacts, EmptyObject},
                k \in DOMAIN BaseQuickFacts, v \in StringInputs}
       \cup {With(b, "healthInsights", Obj(With(h, "overallCondition", v))) :
                b \in bases, h \in {BaseInsights, EmptyObject}, v \in StringInputs}
       \cup {With(b, "healthInsights", Obj(With(h, k, v))) :
                b \in bases, h \in {BaseInsights, EmptyObject},
                k \in InsightsLists, v \in ListInputs}

\* payloads that vary isPlant and the fields of a non-plant answer
DiscriminatorPayloads ==
         {With(b, "isPlant", v) : b \in {BasePlant, BaseNonPlant, EmptyObject},
                                  v \in IsPlantInputs}
    \cup {With(With(BaseNonPlant, k, v), "isPlant", w) :
             k \in ObjectInfoFields, v \in StringInputs, w \in IsPlantInputs}

Payloads == PlantPayloads \cup DiscriminatorPayloads

\* the JSON text of a payload
JSONtext(o) == IF o = EmptyObject THEN <<LBrace, RBrace>> ELSE <<LBrace, Members(o), RBrace>>

\* every text of at most MaxLen pieces: braces, prose and one member list
Pieces == {LBrace, RBrace, Prose, Members(BasePlant)}

StructureTexts == UNION {[1..n -> Pieces] : n \in 0..MaxLen}

\* the AI texts: every structure, and every payload as a JSON text, bare or
\* after prose
Texts ==
         StructureTexts
    \cup {JSONtext(o) : o \in Payloads}
    \cup {<<Prose>> \o JSONtext(o) : o \in DiscriminatorPayloads}

\* the AI texts whose payloads vary confidence and healthScore
PipelineTexts ==
    {JSONtext(With(With(BasePlant, "confidence", v), "healthScore", w)) :
        v \in NumberInputs, w \in {Num(90), Half(87), Str("high")}}

--------------------------------------------------------------------------
(* The analyze endpoint and the screens that use its answer *)

\* if (!apiKey) return ...
ApiKeyMissing ==
    failure(500, "API_KEY_MISSING",
            "Plant analysis service is not configured. Please check your "
            \o "environment settings.")

\* request.json() threw
InvalidRequest == failure(400, "INVALID_REQUEST", "Invalid request format")

\* if (!imageBase64) return ...
MissingImageData ==
    failure(400, "MISSING_IMAGE_DATA",
            "No image data provided. Please take a photo first.")

\* if (!geminiResponse.ok) return ..., for a reply of status 503 whose body
\* is the JSON text {}
GeminiApiError ==
    failure(500, "GEMINI_API_ERROR", "Gemini API error: 503 - Unknown error")

\* what the request body can be: not JSON, the JSON text null, a JSON object
\* without imageBase64, a JSON object with it
Bodies == {"notJSON", "null", "noImage", "image"}

\* what the AI provider can do: fetch rejects; a reply that is not ok with a
\* JSON body, or with a body that is not JSON; an ok reply whose body is not
\* JSON; an ok reply with JSON, whose text, if any, is aiResponse
Providers == {"rejects", "notOk", "notOkText", "badJSON", "text"}

\* the requests that get as far as the fetch
Fetched(req) == req.apiKey /\ req.body = "image"

\* what POST answers. Destructuring the body null throws a TypeError; so do
\* a fetch that rejects, geminiResponse.text() after geminiResponse.json()
\* has read the body, and geminiResponse.json() of a body that is not JSON:
\* all are caught by the outer catch
post(req, text) ==
    IF ~req.apiKey THEN ApiKeyMissing
    ELSE IF req.body = "notJSON" THEN InvalidRequest
    ELSE IF req.body = "null" THEN AnalysisFailed
    ELSE IF req.body = "noImage" THEN MissingImageData
    ELSE CASE req.provider = "rejects" -> AnalysisFailed
           [] req.provider = "notOk" -> GeminiApiError
           [] req.provider = "notOkText" -> AnalysisFailed
           [] req.provider = "badJSON" -> AnalysisFailed
           [] req.provider = "text" -> postResponse(text)

\* POST: the endpoint answers the analyze request
POST ==
    /\ response = <<>>
    /\ response' = <<post(request, aiResponse)>>
    /\ fetches' = IF Fetched(request) THEN fetches + 1 ELSE fetches
    /\ UNCHANGED <<blob, now, saves, calls, faults, last, tasks, writes,
                   aiResponse, params, request, resultsScreen>>

\* the screens that post the image: the camera tab passes healthScore and
\* healthInsights, the analyzing screen does not
Screens == {"camera", "analyzing"}

\* router.push({ pathname: '/results', params: { ... } })
routeParams(screen, data) ==
    LET shared == [plantName |-> data.plantName,
                   confidence |-> Str(toText(data.confidence) \o "%"),
                   healthStatus |-> data.healthStatus]
    IN IF screen = "camera"
       THEN With(shared, "healthScore", Str(toText(data.healthScore)))
       ELSE shared

\* analyzePlant after response.json(): a failure is alerted; on success the
\* results screen is opened, unless data.healthScore.toString() throws
\* because healthScore is null, which is alerted too
RouterPush(screen) ==
    /\ response # <<>> /\ response[1].success
    /\ params = <<>>
    /\ ~(screen = "camera" /\ response[1].data.healthScore = Null)
    /\ params' = <<routeParams(screen, response[1].data)>>
    /\ UNCHANGED <<blob, now, saves, calls, faults, last, tasks, writes,
                   aiResponse, response, request, fetches, resultsScreen>>

\* the decimal texts of the numbers up to MaxNumber, and of null
NumberTexts ==
         {ToString(n) : n \in 0..MaxNumber}
    \cup {ToString(n) \o ".5" : n \in 0..MaxNumber}
    \cup {"null"}

\* s.replace('%', '')
replacePercent(s) ==
    IF \E t \in NumberTexts : t \o "%" = s
    THEN CHOOSE t \in NumberTexts : t \o "%" = s
    ELSE s

\* parseInt(v): the whole number a decimal text begins with, else NaN
parseInt(v) ==
    IF v[1] # "string" THEN NaN
    ELSE IF \E n \in 0..MaxNumber : v[2] \in {ToString(n), ToString(n) \o ".5"}
    THEN Num(CHOOSE n \in 0..MaxNumber : v[2] \in {ToString(n), ToString(n) \o ".5"})
    ELSE NaN

\* const score = parseInt(healthScore as string) || 50
score(routed) == OrElse(parseInt(Get(routed, "healthScore")), Num(50))

\* handleSavePlant's plantData, of which the model keeps four fields
plantData(routed) ==
    [name |-> Get(routed, "plantName"),
     confidence |->
        parseInt(OrElse(IF Get(routed, "confidence") = Undefined THEN Undefined
                        ELSE Str(replacePercent(Get(routed, "confidence")[2])),
                        Str("50"))),
     healthStatus |-> Get(routed, "healthStatus"),
     healthScore |-> score(routed)]

\* handleSavePlant on the results screen
HandleSavePlant(suffix) ==
    /\ params # <<>>
    /\ SavePlant(plantData(params[1]), suffix, FALSE, FALSE)

\* every request, and the AI texts that take each way through the endpoint:
\* no text, prose, a plant, a non-plant, two objects, and a confidence that
\* cannot be made a number
PostTexts ==
    { <<>>, <<Prose>>, JSONtext(BasePlant), JSONtext(BaseNonPlant),
      <<Prose>> \o JSONtext(BasePlant),
      JSONtext(EmptyObject) \o JSONtext(EmptyObject),
      JSONtext(With(BasePlant, "confidence", Obj([toString |-> Num(0)]))) }

InitPost ==
    /\ request \in [apiKey : BOOLEAN, body : Bodies, provider : Providers]
    /\ aiResponse \in PostTexts
    /\ blob = Absent
    /\ now = 0
    /\ saves = 0
    /\ calls = 0
    /\ faults = 0
    /\ last = NoCall
    /\ tasks = [t \in Tasks |-> Idle]
    /\ writes = 0
    /\ response = <<>>
    /\ params = <<>>
    /\ fetches = 0
    /\ resultsScreen = FreshScreen

NextPost ==
    \/ POST
    \/ \E screen \in Screens : RouterPush(screen)

SpecPost == InitPost /\ [][NextPost]_vars

InitAnalyze ==
    /\ blob = Absent
    /\ now = 0
    /\ saves = 0
    /\ calls = 0
    /\ faults = 0
    /\ last = NoCall
    /\ tasks = [t \in Tasks |-> Idle]
    /\ writes = 0
    /\ aiResponse \in Texts
    /\ response = <<>>
    /\ params = <<>>
    /\ request = ServedRequest
    /\ fetches = 0
    /\ resultsScreen = FreshScreen

\* the endpoint answers one AI text, and a screen opens the results
NextAnalyze ==
    \/ POST
    \/ \E screen \in Screens : RouterPush(screen)

SpecAnalyze == InitAnalyze /\ [][NextAnalyze]_vars

InitPipeline ==
    /\ blob = Absent
    /\ now = 0
    /\ saves = 0
    /\ calls = 0
    /\ faults = 0
    /\ last = NoCall
    /\ tasks = [t \in Tasks |-> Idle]
    /\ writes = 0
    /\ aiResponse \in PipelineTexts
    /\ response = <<>>
    /\ params = <<>>
    /\ request = ServedRequest
    /\ fetches = 0
    /\ resultsScreen = FreshScreen

\* from the AI text to the store: the analysis is saved from the results
\* screen, then watered and removed from the journal
NextPipeline ==
    \/ POST
    \/ \E screen \in Screens : RouterPush(screen)
    \/ \E suffix \in Suffixes : HandleSavePlant(suffix)
    \/ \E id \in RaceIdInputs :
          UpdatePlant(id, [lastWatered |-> toISOString(now)], FALSE, FALSE)
    \/ \E id \in RaceIdInputs : DeletePlant(id, FALSE, FALSE)

SpecPipeline == InitPipeline /\ [][NextPipeline]_vars

--------------------------------------------------------------------------
(* Properties of the analysis: from the AI text to the persisted record *)

\* the endpoint has answered
Answered == response # <<>>

\* the payload the endpoint parsed out of the AI text
Given == JSONparseObject(jsonMatch(aiResponse)[1])[1]

\* the endpoint has answered with a plant record, for a payload whose isPlant
\* is absent or true
PlantAnswered ==
    /\ Answered /\ response[1].success
    /\ Get(Given, "isPlant") \in {Undefined, Bool(TRUE)}

\* v is a whole number from 1 to 100
InRange(v) == v[1] = "number" /\ v[2] \in 1..100

\* v is a string with at least one character
NonEmptyString(v) == v[1] = "string" /\ v[2] # ""

\* v is a list of strings with at least one element
NonEmptyStringList(v) ==
    /\ v[1] = "array" /\ Len(v[2]) > 0
    /\ \A i \in 1..Len(v[2]) : v[2][i][1] = "string"

\* C13: every persisted record has confidence and healthScore in [1,100],
\* in every state the pipeline reaches: AI text, endpoint, results screen,
\* savePlant, then updatePlant and deletePlant calls
PersistedInRange ==
    \A i \in 1..Len(Collection) :
        \A k \in NumberFields : InRange(Get(Collection[i], k))

\* C14: for a payload whose isPlant is absent or true, whatever its
\* confidence and healthScore hold, the normalized confidence and
\* healthScore are whole numbers from 1 to 100
NormalizedInRange ==
    PlantAnswered => \A k \in NumberFields : InRange(response[1].data[k])

\* C15: the normalized confidence and healthScore are the reference clamp
\* of what was given: 1 for a number below 1, 100 for a number above 100,
\* the number itself from 1 to 100, and 50 for an absent field, null, a text
\* that is not a number, or an object
ReferenceClamp ==
    PlantAnswered =>
        \A k \in NumberFields :
            LET v == Get(Given, k)
                out == response[1].data[k]
            IN /\ (v[1] = "number" /\ v[2] < 1) => out = Num(1)
               /\ (v[1] = "number" /\ v[2] > 100) => out = Num(100)
               /\ (v[1] = "number" /\ v[2] \in 1..100) => out = v
               /\ ( \/ v \in {Undefined, Null}
                    \/ v[1] = "object"
                    \/ (v[1] = "string" /\ StringToNumber(v[2]) = NaN) )
                     => out = Num(50)

\* C16: strengths, concerns and recommendations of a normalized plant record
\* are never empty: each is what was given when that is a list of strings
\* with at least one element, and else the field's one-element fallback
InsightsNeverEmpty ==
    PlantAnswered =>
        \A k \in InsightsLists :
            LET v == OptGet(Get(Given, "healthInsights"), k)
                out == response[1].data.healthInsights[2][k]
            IN /\ out[1] = "array" /\ Len(out[2]) > 0
               /\ out = IF NonEmptyStringList(v) THEN v ELSE InsightsFallback[k]

Defaulted(v, out, fallback) ==
    /\ NonEmptyString(v) => out = v
    /\ ~NonEmptyString(v) => out = fallback

\* C18: every string field of the normalized plant record is defaulted on
\* its own: plantName, commonName, healthStatus, diagnosis, the eight fields
\* of quickFacts and healthInsights.overallCondition each are what was given
\* if and only if that is a non-empty string, and else the field's fallback
StringsDefaulted ==
    PlantAnswered =>
        /\ \A k \in StringFields :
              Defaulted(Get(Given, k), response[1].data[k], StringFallback[k])
        /\ \A k \in DOMAIN QuickFactsFallback :
              Defaulted(OptGet(Get(Given, "quickFacts"), k),
                        response[1].data.quickFacts[2][k], QuickFactsFallback[k])
        /\ Defaulted(OptGet(Get(Given, "healthInsights"), "overallCondition"),
                     response[1].data.healthInsights[2].overallCondition,
                     OverallConditionFallback)

\* the endpoint has parsed a payload out of the AI text: it has answered,
\* and neither that there was no text nor that no JSON was found in it
Parsed == Answered /\ response[1] \notin {NoAiResponse, ParseFailed}

\* C19: the answer is a non-plant result, with objectType, objectName,
\* explanation and whyNotPlant each defaulted as a string field is, if and
\* only if the payload's isPlant is false; for every other isPlant, absent
\* included, it is a plant record
DiscriminatorSelects ==
    Parsed =>
        IF Get(Given, "isPlant") = Bool(FALSE)
        THEN /\ response[1].error = "NOT_A_PLANT" /\ ~response[1].success
             /\ response[1].data = EmptyObject
             /\ \A k \in ObjectInfoFields :
                   Defaulted(Get(Given, k), response[1].objectInfo[k],
                             ObjectInfoFallback[k])
        ELSE /\ response[1].success
             /\ response[1].objectInfo = EmptyObject
             /\ DOMAIN response[1].data = DOMAIN results(EmptyObject)

\* the text has an opening brace with a closing brace after it
HasBracePair ==
    \E i, j \in 1..Len(aiResponse) :
        i < j /\ aiResponse[i] = LBrace /\ aiResponse[j] = RBrace

\* the text from the first opening brace to the last closing brace
OuterSpan ==
    LET a == CHOOSE i \in 1..Len(aiResponse) :
                /\ aiResponse[i] = LBrace
                /\ \A h \in 1..(i - 1) : aiResponse[h] # LBrace
        b == CHOOSE j \in 1..Len(aiResponse) :
                /\ aiResponse[j] = RBrace
                /\ \A h \in (j + 1)..Len(aiResponse) : aiResponse[h] # RBrace
    IN [h \in 1..(b - a + 1) |-> aiResponse[a + h - 1]]

\* a text that is a JSON object: braces around nothing or around a member
\* list
IsJSONObject(span) ==
    \/ span = <<LBrace, RBrace>>
    \/ /\ Len(span) = 3
       /\ span[1] = LBrace /\ span[2][1] = "members" /\ span[3] = RBrace

\* the endpoint answered with a failure that carries no record
FailedWith(error) ==
    /\ response[1].status = 500 /\ ~response[1].success
    /\ response[1].error = error
    /\ response[1].data = EmptyObject /\ response[1].objectInfo = EmptyObject

\* C20 as stated: for every AI text, an object is parsed if and only if the
\* text has a brace pair and its outer span is a JSON object; in every other
\* case the answer is the failure ANALYSIS_FAILED, with no record
ExtractionFailsClosed ==
    Answered =>
        IF HasBracePair /\ IsJSONObject(OuterSpan)
        THEN Parsed
        ELSE FailedWith("ANALYSIS_FAILED")

\* C20 amended: the same for every AI text that is not empty; the empty text
\* is answered with the failure NO_AI_RESPONSE, with no record
ExtractionFailsClosedNonEmpty ==
    Answered =>
        IF aiResponse = <<>>
        THEN FailedWith("NO_AI_RESPONSE")
        ELSE IF HasBracePair /\ IsJSONObject(OuterSpan)
        THEN Parsed
        ELSE FailedWith("ANALYSIS_FAILED")

\* two JSON objects side by side make one span that does not parse, and the
\* answer is ANALYSIS_FAILED
ExtractionFailsClosedWitness ==
    /\ aiResponse = <<LBrace, RBrace, LBrace, RBrace>>
    /\ Answered /\ FailedWith("ANALYSIS_FAILED")


\* C21: for every payload the extraction parsed, whatever its fields hold,
\* the endpoint answers with a plant record or a non-plant result and never
\* with an error outcome
ContentNeverRaises ==
    Parsed =>
        /\ response[1].status = 200
        /\ \/ response[1].success /\ response[1].error = ""
           \/ ~response[1].success /\ response[1].error = "NOT_A_PLANT"


--------------------------------------------------------------------------
(* Statistics: PlantStorage.getPlantStats *)

\* the most records of a collection the statistics are drawn for
MaxPlants == 3

\* 1000 * 60 * 60 * 24, the milliseconds of a day
Day == 1000 * 60 * 60 * 24

\* the instants at which the statistics are asked for
ClockInstants == {Day, 7 * Day - 1, 7 * Day, 8 * Day}

\* the instants a stored lastWatered can be the ISO text of
Instants == (0..MaxNow) \cup ClockInstants

\* new Date(v).getTime(): the instant a text is the ISO form of, NaN for every
\* other text
getTime(v) ==
    IF \E t \in Instants : toISOString(t) = v
    THEN Num(CHOOSE t \in Instants : toISOString(t) = v)
    ELSE NaN

\* s.toLowerCase(), for the statuses the model stores
toLowerCase(s) ==
    CASE s \in {"Healthy", "HEALTHY"} -> "healthy"
      [] s \in {"Poor", "POOR"} -> "poor"
      [] s = "Fair" -> "fair"
      [] s = "Good" -> "good"
      [] OTHER -> s

\* p.healthStatus.toLowerCase() === 'healthy' || p.healthScore > 80
isHealthyAbove(p) ==
    \/ toLowerCase(Get(p, "healthStatus")[2]) = "healthy"
    \/ Get(p, "healthScore")[2] > 80

\* p.healthStatus.toLowerCase() === 'healthy' || p.healthScore >= 80
isHealthy(p) ==
    \/ toLowerCase(Get(p, "healthStatus")[2]) = "healthy"
    \/ Get(p, "healthScore")[2] >= 80

\* p.healthStatus.toLowerCase() === 'poor' || p.healthScore < 60
needsCare(p) ==
    \/ toLowerCase(Get(p, "healthStatus")[2]) = "poor"
    \/ Get(p, "healthScore")[2] < 60

\* daysSince > 7
daysSinceOver(daysSince) == daysSince > 7

\* return daysSince >= 7
daysSinceAtLeast(daysSince) == daysSince >= 7

\* the filter of plantsNeedingWater: no lastWatered, or Math.floor of the
\* elapsed days is at least 7; an invalid date gives NaN, which is not
needsWater(p, t) ==
    IF ~Truthy(Get(p, "lastWatered")) THEN TRUE
    ELSE LET lastWatered == getTime(Get(p, "lastWatered"))
         IN IF lastWatered = NaN THEN FALSE
            ELSE daysSinceAtLeast((t - lastWatered[2]) \div Day)

\* plants.filter(isHealthy).length
RECURSIVE healthyPlants(_)
healthyPlants(plants) ==
    IF plants = <<>> THEN 0
    ELSE (IF isHealthy(Head(plants)) THEN 1 ELSE 0) + healthyPlants(Tail(plants))

\* plants.filter(needsCare).length
RECURSIVE plantsNeedingCare(_)
plantsNeedingCare(plants) ==
    IF plants = <<>> THEN 0
    ELSE (IF needsCare(Head(plants)) THEN 1 ELSE 0)
         + plantsNeedingCare(Tail(plants))

\* plants.filter(needsWater).length
RECURSIVE plantsNeedingWater(_, _)
plantsNeedingWater(plants, t) ==
    IF plants = <<>> THEN 0
    ELSE (IF needsWater(Head(plants), t) THEN 1 ELSE 0)
         + plantsNeedingWater(Tail(plants), t)

\* plants.reduce((sum, p) => sum + p.healthScore, 0)
RECURSIVE reduceSum(_)
reduceSum(plants) ==
    IF plants = <<>> THEN 0
    ELSE Get(Head(plants), "healthScore")[2] + reduceSum(Tail(plants))

\* Math.floor(sum / n)
MathFloor(sum, n) == sum \div n

\* Math.round(sum / n): the nearest whole number, a half rounded up
MathRound(sum, n) == (2 * sum + n) \div (2 * n)

\* what getPlantStats returns for an empty collection, and from its catch
ZeroStats ==
    [totalPlants |-> 0, healthyPlants |-> 0, plantsNeedingCare |-> 0,
     plantsNeedingWater |-> 0, averageHealthScore |-> 0]

\* the number of savePlant calls made so far
totalPlantsCounted(plants) == saves

\* const totalPlants = plants.length
totalPlants(plants) == Len(plants)

\* getPlantStats, from the collection it read at instant t; the records are
\* SavedPlant records: healthStatus a string, healthScore a whole number
getPlantStats(plants, t) ==
    IF totalPlants(plants) = 0 THEN ZeroStats
    ELSE [totalPlants |-> totalPlants(plants),
          healthyPlants |-> healthyPlants(plants),
          plantsNeedingCare |-> plantsNeedingCare(plants),
          plantsNeedingWater |-> plantsNeedingWater(plants, t),
          averageHealthScore |->
              MathRound(reduceSum(plants), totalPlants(plants))]

\* PlantStorage.getPlantStats()
GetPlantStats(rf) ==
    /\ Fails(rf, FALSE)
    /\ last' = Call("getPlantStats", Undefined, EmptyObject, rf, FALSE, 0,
                    "return", "", <<getPlantStats(getAllPlants(blob, rf), now)>>,
                    TRUE)
    /\ UNCHANGED <<blob, now, saves, calls, tasks, writes,
                   aiResponse, response, params, request, fetches, resultsScreen>>

\* time passes, to a later instant the statistics are asked at
Passes ==
    /\ \E t \in ClockInstants : t > now /\ now' = t
    /\ last' = NoCall
    /\ UNCHANGED <<blob, saves, calls, faults, tasks, writes,
                   aiResponse, response, params, request, fetches, resultsScreen>>


\* what savePlant and updatePlant have stored of a record: its status and
\* score, on the thresholds and either side of them, and its last watering
StatsRecords ==
    { [healthStatus |-> Str("Healthy"), healthScore |-> Num(90),
       lastWatered |-> toISOString(0)],
      [healthStatus |-> Str("Fair"), healthScore |-> Num(50)],
      [healthStatus |-> Str("Fair"), healthScore |-> Num(70),
       lastWatered |-> toISOString(Day)],
      [healthStatus |-> Str("healthy"), healthScore |-> Num(50),
       lastWatered |-> toISOString(0)],
      [healthStatus |-> Str("POOR"), healthScore |-> Num(80)],
      [healthStatus |-> Str("Good"), healthScore |-> Num(80),
       lastWatered |-> toISOString(Day)],
      [healthStatus |-> Str("Fair"), healthScore |-> Num(79),
       lastWatered |-> toISOString(0)],
      [healthStatus |-> Str("Fair"), healthScore |-> Num(59),
       lastWatered |-> toISOString(Day)],
      [healthStatus |-> Str("Fair"), healthScore |-> Num(60)] }

\* the i-th record of a collection saved at instant 0
storedAt(record, i) ==
    Spread(record, [id |-> plantId(0, ToString(i)), dateAdded |-> toISOString(0)])

\* the collections of up to MaxPlants records
StatsCollections ==
    UNION { { [i \in 1..n |-> storedAt(f[i], i)] : f \in [1..n -> StatsRecords] } :
            n \in 0..MaxPlants }

InitStats ==
    /\ blob \in {Absent} \cup {JSONstringify(c) : c \in StatsCollections}
    /\ now \in ClockInstants
    /\ saves = 0
    /\ calls = 0
    /\ faults = 0
    /\ last = NoCall
    /\ tasks = [t \in Tasks |-> Idle]
    /\ writes = 0
    /\ aiResponse = <<>>
    /\ response = <<>>
    /\ params = <<>>
    /\ request = ServedRequest
    /\ fetches = 0
    /\ resultsScreen = FreshScreen

\* the profile and home screens ask for the statistics as time passes
NextStats ==
    \/ \E rf \in BOOLEAN : GetPlantStats(rf)
    \/ Passes

SpecStats == InitStats /\ [][NextStats]_vars


--------------------------------------------------------------------------
(* Claims about the statistics *)

\* getPlantStats has just returned the statistics of a collection it read
StatsReturned == last.op = "getPlantStats" /\ Clean(last)

\* the statistics it returned
Stats == last.ret[1]

\* the positions of the persisted collection
Positions == 1..Len(Collection)

\* the spellings of a status word that differ in case only
IgnoringCase(word) ==
    CASE word = "healthy" -> {"healthy", "Healthy", "HEALTHY"}
      [] word = "poor" -> {"poor", "Poor", "POOR"}

\* the healthStatus and healthScore of the record at position i
StatusAt(i) == Get(Collection[i], "healthStatus")[2]
ScoreAt(i) == Get(Collection[i], "healthScore")[2]

\* the records whose healthStatus is "healthy" in any case or whose
\* healthScore is at least 80
Healthy ==
    {i \in Positions : StatusAt(i) \in IgnoringCase("healthy") \/ ScoreAt(i) >= 80}

\* the records whose healthStatus is "poor" in any case or whose healthScore
\* is below 60
NeedingCare ==
    {i \in Positions : StatusAt(i) \in IgnoringCase("poor") \/ ScoreAt(i) < 60}

\* C22: healthyPlants is the number of records whose healthStatus is
\* "healthy" in any case or whose healthScore is at least 80, and
\* plantsNeedingCare the number of records whose healthStatus is "poor" in
\* any case or whose healthScore is below 60
HealthCounts ==
    StatsReturned =>
        /\ Stats.healthyPlants = Cardinality(Healthy)
        /\ Stats.plantsNeedingCare = Cardinality(NeedingCare)

\* the statistics of three records scored 90, 50 and 70 with neutral
\* statuses but the first: one is healthy and one needs care
HealthCountsWitness ==
    /\ StatsReturned
    /\ Len(Collection) = 3
    /\ <<ScoreAt(1), ScoreAt(2), ScoreAt(3)>> = <<90, 50, 70>>
    /\ StatusAt(2) = "Fair" /\ StatusAt(3) = "Fair"
    /\ Stats.healthyPlants = 1 /\ Stats.plantsNeedingCare = 1


\* the sum of the healthScore of the first k records
RECURSIVE SumTo(_)
SumTo(k) == IF k = 0 THEN 0 ELSE ScoreAt(k) + SumTo(k - 1)

\* a is a whole number nearest to sum / n
Nearest(a, sum, n) ==
    /\ a \in Int
    /\ 2 * (n * a - sum) <= n
    /\ 2 * (sum - n * a) <= n

\* C23: averageHealthScore is the mean of healthScore over all records
\* rounded to the nearest whole number; for an empty store the call returns,
\* and all five statistics are 0
AverageRounded ==
    StatsReturned =>
        /\ last.out = "return"
        /\ IF Len(Collection) = 0
           THEN Stats = ZeroStats
           ELSE Nearest(Stats.averageHealthScore, SumTo(Len(Collection)),
                        Len(Collection))

\* the mean of 79, 80 and 80 is 79.67, and the statistic is 80
AverageRoundedWitness ==
    /\ StatsReturned
    /\ Len(Collection) = 3
    /\ <<ScoreAt(1), ScoreAt(2), ScoreAt(3)>> = <<79, 80, 80>>
    /\ Stats.averageHealthScore = 80

\* the instant a record was last watered at, if its lastWatered tells one
WateredAt(i) ==
    {t \in Instants : toISOString(t) = Get(Collection[i], "lastWatered")}

\* the records that have no lastWatered, or were last watered 7 days before
\* instant t or earlier
NeedingWater(t) ==
    {i \in Positions : \/ Get(Collection[i], "lastWatered") = Undefined
                       \/ \E w \in WateredAt(i) : t - w >= 7 * Day}

\* C24: plantsNeedingWater is the number of records that have no lastWatered
\* or were last watered 7 days before now or earlier: one watered less than
\* 7 days ago is not counted, one watered exactly 7 days ago is
WaterCounts ==
    StatsReturned =>
        Stats.plantsNeedingWater = Cardinality(NeedingWater(now))

\* a record watered at instant 0 is counted at the instant 7 days later, and
\* one watered a day after that is not
WaterCountsWitness ==
    /\ StatsReturned
    /\ now = 7 * Day
    /\ Len(Collection) = 2
    /\ WateredAt(1) = {0} /\ WateredAt(2) = {Day}
    /\ Stats.plantsNeedingWater = 1

\* C28: no record is counted both as healthy and as needing care, so
\* healthyPlants and plantsNeedingCare together are at most totalPlants and
\* the two segments of the collection-health bar fit its width
HealthyAndCareDisjoint ==
    StatsReturned =>
        Stats.healthyPlants + Stats.plantsNeedingCare <= Stats.totalPlants


\* the journal: records are saved, watered and deleted one call after the
\* other while the medium works, and the statistics are asked for in between
NextJournal ==
    \/ \E draft \in Drafts, suffix \in Suffixes :
          SavePlant(draft, suffix, FALSE, FALSE)
    \/ \E id \in IdInputs(Collection) :
          UpdatePlant(id, [lastWatered |-> toISOString(now)], FALSE, FALSE)
    \/ \E id \in IdInputs(Collection) : DeletePlant(id, FALSE, FALSE)
    \/ GetPlantStats(FALSE)
    \/ Tick

SpecJournal == Init /\ [][NextJournal]_vars

\* C25: whatever savePlant, updatePlant and deletePlant calls came before,
\* getPlantStats returns totalPlants equal to the number of records persisted
\* when it is called, and the other four statistics are those of that
\* collection at that instant
NeverStale ==
    [][Called("getPlantStats") =>
          LET stats == last'.ret[1]
          IN /\ stats.totalPlants = Len(Collection)
             /\ stats.healthyPlants = Cardinality(Healthy)
             /\ stats.plantsNeedingCare = Cardinality(NeedingCare)
             /\ stats.plantsNeedingWater = Cardinality(NeedingWater(now))
             /\ IF Len(Collection) = 0 THEN stats.averageHealthScore = 0
                ELSE Nearest(stats.averageHealthScore, SumTo(Len(Collection)),
                             Len(Collection))]_vars

\* the statistics of the one record that is left after two were saved and
\* one of them deleted
NeverStaleWitness ==
    /\ last.op = "getPlantStats"
    /\ saves = 2
    /\ Len(Collection) = 1
    /\ Stats.totalPlants = 1


--------------------------------------------------------------------------
(* The store against a sequence of records *)

\* the sequence model: prepend a record
Prepended(seq, record) == <<record>> \o seq

\* the sequence model: replace in place the first record that has the id by
\* its merge with the updates; no record has it, no change
Replaced(seq, id, updates) ==
    LET with == {i \in 1..Len(seq) : Get(seq[i], "id") = id}
    IN IF with = {} THEN seq
       ELSE LET first == CHOOSE i \in with : \A j \in with : i <= j
            IN [seq EXCEPT ![first] = stringifyObject(Spread(@, updates))]

\* the sequence model: remove every record that has the id
Removed(seq, id) == SelectSeq(seq, LAMBDA record : Get(record, "id") # id)

\* C26: while calls are made one after the other and the medium works, what
\* is persisted after every call is what the sequence model holds: savePlant
\* prepends the record it returns, updatePlant replaces in place the first
\* record with the id by its merge with the updates, deletePlant removes
\* every record with the id, and a read changes nothing
RefinesSequence ==
    [][ /\ Called("savePlant") =>
              Collection' = Prepended(Collection, stringifyObject(last'.ret[1]))
        /\ Called("updatePlant") =>
              Collection' = Replaced(Collection, last'.id, last'.arg)
        /\ Called("deletePlant") =>
              Collection' = Removed(Collection, last'.id)
        /\ (Called("getAllPlants") \/ Called("getPlantById")) =>
              Collection' = Collection
      ]_vars

\* updatePlant has replaced the second of two records where it was
RefinesSequenceWitness ==
    /\ last.op = "updatePlant" /\ last.ret # <<>>
    /\ Len(Collection) = 2
    /\ Get(Collection[1], "id") # last.id
    /\ Collection[2] = stringifyObject(last.ret[1])


\* C27: a read the medium fails during savePlant, updatePlant or deletePlant
\* destroys nothing: every record persisted before the call, other than one
\* deletePlant names, is persisted after it, and a savePlant that returns
\* leaves the new record followed by all the previous ones
ReadFaultKeepsData ==
    [][ \A op \in {"savePlant", "updatePlant", "deletePlant"} :
           (Called(op) /\ last'.readFault) =>
              /\ \A i \in 1..Len(Collection) :
                    (op = "deletePlant" /\ Get(Collection[i], "id") = last'.id)
                    \/ \E j \in 1..Len(Collection') : Collection'[j] = Collection[i]
              /\ (op = "savePlant" /\ last'.out = "return") =>
                    Collection' = Prepended(Collection,
                                            stringifyObject(last'.ret[1]))
      ]_vars


--------------------------------------------------------------------------
(* Claims about the order of the endpoint's checks *)

\* the error code of the first check that fails, "" when none does; a fetch
\* that rejects and an ok reply that is not JSON give no text
FirstFailing ==
    IF ~request.apiKey THEN "API_KEY_MISSING"
    ELSE IF request.body = "notJSON" THEN "INVALID_REQUEST"
    ELSE IF request.body \in {"null", "noImage"} THEN "MISSING_IMAGE_DATA"
    ELSE IF request.provider \in {"notOk", "notOkText"} THEN "GEMINI_API_ERROR"
    ELSE IF request.provider \in {"rejects", "badJSON"} \/ aiResponse = <<>>
    THEN "NO_AI_RESPONSE"
    ELSE IF ~(HasBracePair /\ IsJSONObject(OuterSpan)) THEN "ANALYSIS_FAILED"
    ELSE IF Get(Given, "isPlant") = Bool(FALSE) THEN "NOT_A_PLANT"
    ELSE ""

\* C29: the answer of POST is the one of the first check that fails, in the
\* order API key, body is JSON, imageBase64, provider status, text, JSON
\* object in the text, isPlant; it is a success with a record if and only if
\* none fails; and the provider is not called when one of the first three
\* fails. What the answer is when the provider gives no reply, or an ok
\* reply that is not JSON, is left open but for its being a failure
CheckOrder ==
    Answered =>
        /\ response[1].success <=> FirstFailing = ""
        /\ response[1].success => response[1].data # EmptyObject
        /\ request.provider \notin {"rejects", "badJSON"} =>
              response[1].error = FirstFailing
        /\ FirstFailing \in {"API_KEY_MISSING", "INVALID_REQUEST",
                             "MISSING_IMAGE_DATA"} => fetches = 0


--------------------------------------------------------------------------
(* The results screen's two save buttons *)

\* the header save button and the Save to Collection button
Buttons == {"header", "bottom"}

\* a button that is never disabled
disabledNever(button, shown) == FALSE

\* disabled={isSaving || isSaved} of the header button, disabled={isSaving}
\* of the bottom one, as last rendered
disabled(button, shown) ==
    IF button = "header" THEN shown.isSaving \/ shown.isSaved
    ELSE shown.isSaving

\* {!isSaved && (...)}: the bottom button is rendered until the plant is saved
rendered(button, shown) == button = "header" \/ ~shown.isSaved

\* a savePlant call of the screen has not settled yet
Pending == resultsScreen.started > resultsScreen.succeeded + resultsScreen.failed

\* the component renders the state it has
Rendering(state) == [isSaving |-> state.isSaving, isSaved |-> state.isSaved]

\* a press that reaches handleSavePlant, up to its await: the handler sees
\* the isSaving of the last render, sets isSaving and calls savePlant; the
\* update made inside the press event is rendered before the next event
Press(button) ==
    /\ params # <<>>
    /\ rendered(button, resultsScreen.shown)
    /\ ~disabled(button, resultsScreen.shown)
    /\ ~resultsScreen.shown.isSaving
    /\ saves < MaxSaves
    /\ saves' = saves + 1
    /\ resultsScreen' =
          [resultsScreen EXCEPT !.isSaving = TRUE,
                                !.shown = Rendering([@ EXCEPT !.isSaving = TRUE]),
                                !.started = @ + 1]
    /\ UNCHANGED <<blob, now, calls, faults, last, tasks, writes,
                   aiResponse, response, params, request, fetches>>

\* the savePlant call settles and handleSavePlant goes on after its await:
\* setIsSaved(true) when it returned, the catch when it threw, and
\* setIsSaving(false) in either case
Settles(suffix, wf) ==
    /\ Pending
    /\ Fails(FALSE, wf)
    /\ LET draft == Spread(plantData(params[1]), [born |-> Num(saves)])
           plant == newPlant(draft, now, suffix)
       IN IF wf
          THEN /\ blob' = blob
               /\ LET c == savePlantCatch(SetItemError)
                  IN last' = Call("savePlant", Undefined, draft, FALSE, TRUE, 1,
                                  c.out, c.err, <<>>, c.ok)
               /\ resultsScreen' = [resultsScreen EXCEPT !.isSaving = FALSE,
                                                         !.failed = @ + 1]
          ELSE /\ blob' = JSONstringify(updatedPlants(plant, getAllPlants(blob, FALSE)))
               /\ last' = Call("savePlant", Get(plant, "id"), draft, FALSE, FALSE, 1,
                               "return", "", <<plant>>, TRUE)
               /\ resultsScreen' = [resultsScreen EXCEPT !.isSaving = FALSE,
                                                         !.isSaved = TRUE,
                                                         !.succeeded = @ + 1]
    /\ UNCHANGED <<now, saves, calls, tasks, writes,
                   aiResponse, response, params, request, fetches>>

\* the updates made after the await are rendered
Render ==
    /\ resultsScreen.shown # Rendering(resultsScreen)
    /\ ~Pending
    /\ resultsScreen' = [resultsScreen EXCEPT !.shown = Rendering(resultsScreen)]
    /\ UNCHANGED <<blob, now, saves, calls, faults, last, tasks, writes,
                   aiResponse, response, params, request, fetches>>

\* the results screen has been opened from either screen that analyzes
InitScreen ==
    /\ params \in { <<routeParams(screen, ResponseJson(results(o)))>> :
                       screen \in Screens,
                       o \in {BasePlant, With(BasePlant, "healthStatus", Str("Poor"))} }
    /\ blob = Absent
    /\ now = 0
    /\ saves = 0
    /\ calls = 0
    /\ faults = 0
    /\ last = NoCall
    /\ tasks = [t \in Tasks |-> Idle]
    /\ writes = 0
    /\ aiResponse = <<>>
    /\ response = <<>>
    /\ request = ServedRequest
    /\ fetches = 0
    /\ resultsScreen = FreshScreen

NextScreen ==
    \/ \E button \in Buttons : Press(button)
    \/ \E suffix \in Suffixes, wf \in BOOLEAN : Settles(suffix, wf)
    \/ Render
    \/ Tick

SpecScreen == InitScreen /\ [][NextScreen]_vars

\* C30: one results screen persists its analysis at most once: at most one
\* of its savePlant calls succeeds, none is started after a success, and none
\* is started while one is in flight: only after every earlier one failed
SavesAtMostOnce ==
    [][ /\ resultsScreen'.succeeded <= 1
        /\ resultsScreen'.started > resultsScreen.started =>
              /\ resultsScreen.succeeded = 0
              /\ resultsScreen.failed = resultsScreen.started
      ]_vars

\* a first savePlant call failed, a second press started another, which has
\* saved the plant
SavesAtMostOnceWitness ==
    /\ resultsScreen.started = 2
    /\ resultsScreen.failed = 1
    /\ resultsScreen.succeeded = 1
    /\ Len(Collection) = 1

=============================================================================
